---- MODULE Spec2Model ----
(***************************************************************************)
(* Model of readwrite_data.h: the rw::ReadStream byte cursor (find,        *)
(* read, readUntil, readWhile over a borrowed buffer), the Simple Text     *)
(* Notation parser stn::parse built on it, and the rw::WriteStream byte    *)
(* sink (pad, put, write, writebit over a growing buffer).                 *)
(*                                                                         *)
(* A byte is a one-character string; a buffer or std::string is a sequence *)
(* of bytes.  Offsets are 0-based as in the source, so the byte at offset  *)
(* i of buffer d is d[i + 1].                                              *)
(***************************************************************************)
EXTENDS Integers, Sequences, FiniteSets, TLC

VARIABLES
    data,       \* ReadStream::data with ReadStream::size = Len(data)
    pos,        \* ReadStream::pos
    op,         \* record of the last ReadStream call: name, arguments, result
    attrs,      \* stn::parse: the std::map being built
    key,        \* stn::parse: the pending key ("" = none)
    pc,         \* stn::parse: "idle", "loop" (inside while (rs)), "done",
                \* or "legacy" once rw::parseSimpleTextNotation has run too
    step,       \* record of the last loop iteration of stn::parse
    commits,    \* the assignments attrs[key] = value made so far, in order
    buf,        \* WriteStream: the std::vector<uint8_t> it derives from
    wpos,       \* WriteStream::pos
    bit_pos,    \* WriteStream::bit_pos
    writebit_reversed,  \* WriteStream::writebit_reversed
    wop,        \* record of the last WriteStream call and the state before it
    fresh,      \* offsets of the bytes added by a resize and not written since
    legacy      \* what rw::parseSimpleTextNotation returned for data

vars ==
    <<data, pos, op, attrs, key, pc, step, commits,
      buf, wpos, bit_pos, writebit_reversed, wop, fresh, legacy>>

streamVars == <<data, pos, op>>
parseVars == <<attrs, key, pc, step, commits, legacy>>
writeVars == <<buf, wpos, bit_pos, writebit_reversed, wop, fresh>>

----------------------------------------------------------------------------
(* Bounds of the model.                                                    *)

MaxLen == 4        \* longest buffer of the stream specification
MaxNeedle == 2     \* longest needle handed to find
MaxLines == 5      \* most lines of a generated parser input
MaxBuf == 2        \* longest buffer a WriteStream starts with
MaxOps == 3        \* most calls made on a WriteStream

----------------------------------------------------------------------------
(* Bytes and literals of the source.                                       *)

NL == "\n"
NUL == "NUL"       \* the '\0' byte std::string(n, '\0') fills with

Bytes == {"a", "b", NL}

\* "[MULTILINE]"
MULTILINE == <<"[", "M", "U", "L", "T", "I", "L", "I", "N", "E", "]">>

\* "[END_MULTILINE]"
END_MULTILINE ==
    <<"[", "E", "N", "D", "_", "M", "U", "L", "T", "I", "L", "I", "N", "E", "]">>

\* the terminator searched without its leading newline: "[END_MULTILINE]\n"
END_SEQUENCE_tag == END_MULTILINE \o <<NL>>

\* "\n[END_MULTILINE]\n"
END_SEQUENCE == <<NL>> \o END_MULTILINE \o <<NL>>

SeqsUpTo(S, n) == UNION {[1..k -> S] : k \in 0..n}

Min(a, b) == IF a < b THEN a ELSE b

\* d[from, to) with 0-based offsets
Range(d, from, to) == SubSeq(d, from + 1, to)

----------------------------------------------------------------------------
(* rw::find_sequence                                                       *)

\* the for loop: one call is one evaluation of the loop condition
RECURSIVE find_sequence_loop(_, _, _, _, _)
find_sequence_loop(container, seq, current, matched_size, found) ==
    IF current < Len(container)
    THEN IF container[current + 1] = seq[matched_size + 1]
         THEN IF matched_size + 1 = Len(seq)
              THEN found
              ELSE find_sequence_loop(container, seq, current + 1,
                                      matched_size + 1, found)
         ELSE find_sequence_loop(container, seq, current + 1, 0, current + 1)
    ELSE found

\* find_sequence returning the -1 its callers' comments announce for an
\* empty sequence
find_sequence_npos(container, seq) ==
    IF Len(seq) = 0
    THEN 0 - 1
    ELSE find_sequence_loop(container, seq, 0, 0, 0)

find_sequence(container, seq) ==
    IF Len(seq) = 0
    THEN 0
    ELSE find_sequence_loop(container, seq, 0, 0, 0)

----------------------------------------------------------------------------
(* rw::ReadStream                                                          *)

\* operator bool true also at the end of the stream: pos <= size
HasMore_inclusive(d, p) == p <= Len(d)

\* operator bool
HasMore(d, p) == p < Len(d)

\* find returning the offset find_sequence gave, relative to pos
find_relative(d, p, str) ==
    find_sequence(IF Len(d) < p THEN <<>> ELSE Range(d, p, Len(d)), str)

\* find: the container is data + pos, of size (size < pos) ? 0 : size - pos
find(d, p, str) ==
    p + find_sequence(IF Len(d) < p THEN <<>> ELSE Range(d, p, Len(d)), str)

\* the predicates handed to readWhile
Rules == {"notNL", "isA", "any", "none"}

Rule(r, c) ==
    CASE r = "notNL" -> c # NL
      [] r = "isA" -> c = "a"
      [] r = "any" -> TRUE
      [] r = "none" -> FALSE

\* readWhile_loop with the break taken before pos++: the failing byte stays
RECURSIVE readWhile_loop_peek(_, _, _, _)
readWhile_loop_peek(d, p, chars, r) ==
    IF p < Len(d)
    THEN IF ~Rule(r, d[p + 1])
         THEN [pos |-> p, chars |-> chars]
         ELSE readWhile_loop_peek(d, p + 1, chars + 1, r)
    ELSE [pos |-> p, chars |-> chars]

\* readWhile_loop stepping over the end of the buffer when it runs out
RECURSIVE readWhile_loop_past(_, _, _, _)
readWhile_loop_past(d, p, chars, r) ==
    IF p < Len(d)
    THEN IF ~Rule(r, d[p + 1])
         THEN [pos |-> p + 1, chars |-> chars]
         ELSE readWhile_loop_past(d, p + 1, chars + 1, r)
    ELSE [pos |-> p + 1, chars |-> chars]

\* the while loop of readWhile; yields the final pos and chars
RECURSIVE readWhile_loop(_, _, _, _)
readWhile_loop(d, p, chars, r) ==
    IF p < Len(d)
    THEN IF ~Rule(r, d[p + 1])
         THEN [pos |-> p + 1, chars |-> chars]
         ELSE readWhile_loop(d, p + 1, chars + 1, r)
    ELSE [pos |-> p, chars |-> chars]

readWhile(d, p, r) ==
    LET l == readWhile_loop(d, p, 0, r)
    IN [pos |-> l.pos, str |-> Range(d, p, p + l.chars)]

\* the for loop of read: i bytes copied so far into dest
RECURSIVE read_loop(_, _, _, _, _)
read_loop(d, p, i, readsize, dest) ==
    IF i < readsize /\ p < Len(d)
    THEN read_loop(d, p + 1, i + 1, readsize, Append(dest, d[p + 1]))
    ELSE [pos |-> p, bytes |-> dest]

\* read advancing pos by readsize whatever was copied
read_full(d, p, readsize) ==
    LET l == read_loop(d, p, 0, readsize, <<>>)
    IN [pos |-> p + readsize, bytes |-> l.bytes, count |-> readsize]

\* read(destination, readsize): the bytes copied, the new pos and the
\* value returned
read(d, p, readsize) ==
    LET l == read_loop(d, p, 0, readsize, <<>>)
    IN [pos |-> l.pos, bytes |-> l.bytes, count |-> l.pos - p]

\* read<T>() of the first ReadStream definition, T of size sizeofT:
\* T t{}; read(&t, sizeof T); pos += sizeof T; return t;
\* the value is the bytes copied over the zero bytes of t{}
read_T(d, p, sizeofT) ==
    LET r == read(d, p, sizeofT)
    IN [pos |-> r.pos + sizeofT,
        value |-> r.bytes \o [i \in 1..(sizeofT - r.count) |-> NUL],
        count |-> r.count]

\* readUntil taking _pos for a number of bytes: no test against pos
readUntil_count(d, p, end) ==
    LET r == read(d, p, end)
    IN [pos |-> r.pos,
        str |-> r.bytes \o [i \in 1..(end - r.count) |-> NUL]]

\* readUntil returning only the bytes read, without the '\0' filling
readUntil_short(d, p, end) ==
    IF end < p
    THEN [pos |-> p, str |-> <<>>]
    ELSE LET r == read(d, p, end - p)
         IN [pos |-> r.pos, str |-> r.bytes]

\* readUntil(_pos)
readUntil(d, p, end) ==
    IF end < p
    THEN [pos |-> p, str |-> <<>>]
    ELSE LET r == read(d, p, end - p)
         IN [pos |-> r.pos,
             str |-> r.bytes \o [i \in 1..(end - p - r.count) |-> NUL]]

----------------------------------------------------------------------------
(* The stream specification: a ReadStream over an arbitrary small buffer,  *)
(* its operations called in any order.                                     *)

NoOp == [name |-> "none"]
NoWop ==
    [n |-> 0, name |-> "none", prev |-> "none", arg |-> 0, buf0 |-> <<>>,
     pos0 |-> 0, bit0 |-> 0]

\* a default-constructed WriteStream nothing is called on
NoWriteStream ==
    /\ buf = <<>>
    /\ wpos = 0
    /\ bit_pos = 0
    /\ writebit_reversed = FALSE
    /\ wop = NoWop
    /\ fresh = {}
NoStep ==
    [kind |-> "none", from |-> 0, mid |-> 0, line |-> <<>>, key0 |-> <<>>,
     val |-> <<>>]
EmptyMap == [k \in {} |-> <<>>]

\* rw::parseSimpleTextNotation not called yet
NoLegacy ==
    [attrs |-> EmptyMap, pos |-> 0, key |-> <<>>, reads |-> 0, saw |-> FALSE]

Needles == SeqsUpTo(Bytes, MaxNeedle)

InitStream ==
    /\ data \in SeqsUpTo(Bytes, MaxLen)
    /\ pos \in 0..(Len(data) + 1)
    /\ op = NoOp
    /\ attrs = EmptyMap
    /\ key = <<>>
    /\ pc = "idle"
    /\ step = NoStep
    /\ commits = <<>>
    /\ legacy = NoLegacy
    /\ NoWriteStream

Find ==
    /\ pc = "idle"
    /\ \E str \in Needles :
         op' = [name |-> "find", needle |-> str, pos0 |-> pos,
                ret |-> find(data, pos, str)]
    /\ UNCHANGED <<data, pos>>
    /\ UNCHANGED parseVars
    /\ UNCHANGED writeVars

ReadWhile ==
    /\ pc = "idle"
    /\ \E r \in Rules :
         LET rw == readWhile(data, pos, r)
         IN /\ pos' = rw.pos
            /\ op' = [name |-> "readWhile", rule |-> r, pos0 |-> pos,
                      ret |-> rw.str]
    /\ UNCHANGED data
    /\ UNCHANGED parseVars
    /\ UNCHANGED writeVars

Read ==
    /\ pc = "idle"
    /\ \E readsize \in 0..(Len(data) + 1) :
         LET r == read(data, pos, readsize)
         IN /\ pos' = r.pos
            /\ op' = [name |-> "read", readsize |-> readsize, pos0 |-> pos,
                      bytes |-> r.bytes, ret |-> r.count]
    /\ UNCHANGED data
    /\ UNCHANGED parseVars
    /\ UNCHANGED writeVars

ReadUntil ==
    /\ pc = "idle"
    /\ \E end \in 0..(Len(data) + 2) :
         LET r == readUntil(data, pos, end)
         IN /\ pos' = r.pos
            /\ op' = [name |-> "readUntil", end |-> end, pos0 |-> pos,
                      ret |-> r.str]
    /\ UNCHANGED data
    /\ UNCHANGED parseVars
    /\ UNCHANGED writeVars

NextStream == Find \/ ReadWhile \/ Read \/ ReadUntil

SpecStream == InitStream /\ [][NextStream]_vars

----------------------------------------------------------------------------
(* The typed-read specification: the first ReadStream definition over an  *)
(* arbitrary small buffer, read<T>() called for some sizes of T while the  *)
(* cursor is within the buffer.                                            *)

\* sizeof T for the types read: one, two and four bytes
TypeSizes == {1, 2, 4}

InitTyped ==
    /\ InitStream
    /\ pos <= Len(data)

ReadT ==
    /\ pc = "idle"
    /\ pos <= Len(data)
    /\ \E sizeofT \in TypeSizes :
         LET r == read_T(data, pos, sizeofT)
         IN /\ pos' = r.pos
            /\ op' = [name |-> "read<T>", sizeofT |-> sizeofT, pos0 |-> pos,
                      count |-> r.count, ret |-> r.value,
                      prev |-> IF op.name = "read<T>"
                               THEN [pos0 |-> op.pos0, count |-> op.count]
                               ELSE [pos0 |-> pos, count |-> 0]]
    /\ UNCHANGED data
    /\ UNCHANGED parseVars
    /\ UNCHANGED writeVars

NextTyped == ReadT

SpecTyped == InitTyped /\ [][NextTyped]_vars

----------------------------------------------------------------------------
(* stn::parse                                                              *)

\* attrs[k] = v on a std::map that keeps the value already stored under k
MapAssign_keep(m, k, v) ==
    [x \in DOMAIN m \cup {k} |-> IF x \in DOMAIN m THEN m[x] ELSE v]

\* attrs[k] = v on a std::map
MapAssign(m, k, v) ==
    [x \in DOMAIN m \cup {k} |-> IF x = k THEN v ELSE m[x]]

\* line.empty() || line[0] == '#'
BlankOrComment(line) == line = <<>> \/ line[1] = "#"

\* the record of one loop iteration: where it began (from), where the
\* cursor stood after the line was read (mid), the line, the pending key
\* it found (key0) and the value it assigned, if any
StepOf(kind, from, mid, line, key0, val) ==
    [kind |-> kind, from |-> from, mid |-> mid, line |-> line,
     key0 |-> key0, val |-> val]

\* the blank-or-comment branch assigning also when no key is pending
BlankBranch_always(from, mid, at, k, line, cm) ==
    [pos |-> mid, attrs |-> MapAssign(at, k, line), key |-> <<>>,
     commits |-> Append(cm, [key |-> k, val |-> line, keyEnd |-> from]),
     step |-> StepOf(IF k # <<>> THEN "blank" ELSE "skip",
                     from, mid, line, k, line)]

\* the blank-or-comment branch storing a null value whatever the line is
BlankBranch_null(from, mid, at, k, line, cm) ==
    IF k # <<>>
    THEN [pos |-> mid, attrs |-> MapAssign(at, k, <<>>), key |-> <<>>,
          commits |-> Append(cm, [key |-> k, val |-> <<>>, keyEnd |-> from]),
          step |-> StepOf("blank", from, mid, line, k, <<>>)]
    ELSE [pos |-> mid, attrs |-> at, key |-> k, commits |-> cm,
          step |-> StepOf("skip", from, mid, line, k, <<>>)]

\* if (line.empty() || line[0] == '#') { ... continue; }
BlankBranch(from, mid, at, k, line, cm) ==
    IF k # <<>>
    THEN [pos |-> mid, attrs |-> MapAssign(at, k, line), key |-> <<>>,
          commits |-> Append(cm, [key |-> k, val |-> line, keyEnd |-> from]),
          step |-> StepOf("blank", from, mid, line, k, line)]
    ELSE [pos |-> mid, attrs |-> at, key |-> k, commits |-> cm,
          step |-> StepOf("skip", from, mid, line, k, <<>>)]

\* the key-or-value branch comparing only the first bytes of the line with
\* "[MULTILINE]"
ValueBranch_prefix(d, from, mid, at, k, line, cm) ==
    IF k = <<>>
    THEN [pos |-> mid, attrs |-> at, key |-> line, commits |-> cm,
          step |-> StepOf("key", from, mid, line, k, <<>>)]
    ELSE IF Len(line) >= Len(MULTILINE)
            /\ SubSeq(line, 1, Len(MULTILINE)) = MULTILINE
         THEN LET ru == readUntil(d, mid, find(d, mid, END_SEQUENCE))
              IN [pos |-> ru.pos, attrs |-> MapAssign(at, k, ru.str),
                  key |-> <<>>,
                  commits |-> Append(cm, [key |-> k, val |-> ru.str,
                                          keyEnd |-> from]),
                  step |-> StepOf("multiline", from, mid, line, k, ru.str)]
         ELSE [pos |-> mid, attrs |-> MapAssign(at, k, line), key |-> <<>>,
               commits |-> Append(cm, [key |-> k, val |-> line,
                                       keyEnd |-> from]),
               step |-> StepOf("value", from, mid, line, k, line)]

\* if (key.empty()) { key = line; } else { ... attrs[key] = line; key.clear(); }
ValueBranch(d, from, mid, at, k, line, cm) ==
    IF k = <<>>
    THEN [pos |-> mid, attrs |-> at, key |-> line, commits |-> cm,
          step |-> StepOf("key", from, mid, line, k, <<>>)]
    ELSE IF line = MULTILINE
         THEN LET ru == readUntil(d, mid, find(d, mid, END_SEQUENCE))
              IN [pos |-> ru.pos, attrs |-> MapAssign(at, k, ru.str),
                  key |-> <<>>,
                  commits |-> Append(cm, [key |-> k, val |-> ru.str,
                                          keyEnd |-> from]),
                  step |-> StepOf("multiline", from, mid, line, k, ru.str)]
         ELSE [pos |-> mid, attrs |-> MapAssign(at, k, line), key |-> <<>>,
               commits |-> Append(cm, [key |-> k, val |-> line,
                                       keyEnd |-> from]),
               step |-> StepOf("value", from, mid, line, k, line)]

\* one iteration of while (rs)
ParseBody(d, p, at, k, cm) ==
    LET rw == readWhile(d, p, "notNL")
    IN IF BlankOrComment(rw.str)
       THEN BlankBranch(p, rw.pos, at, k, rw.str, cm)
       ELSE ValueBranch(d, p, rw.pos, at, k, rw.str, cm)

----------------------------------------------------------------------------
(* rw::parseSimpleTextNotation, the parser without multiline values.       *)

\* while (rs) { ... }: the table, the cursor and the pending key it ends
\* with, the number of lines it read, and whether it read a line equal to
\* "[MULTILINE]" while a key was pending
RECURSIVE parseSimpleTextNotation_loop(_, _, _, _, _, _)
parseSimpleTextNotation_loop(d, p, at, k, reads, saw) ==
    IF ~HasMore(d, p)
    THEN [attrs |-> at, pos |-> p, key |-> k, reads |-> reads, saw |-> saw]
    ELSE LET rw == readWhile(d, p, "notNL")
             line == rw.str
         IN IF BlankOrComment(line)
            THEN IF k # <<>>
                 THEN parseSimpleTextNotation_loop(
                          d, rw.pos, MapAssign(at, k, line), <<>>,
                          reads + 1, saw)
                 ELSE parseSimpleTextNotation_loop(
                          d, rw.pos, at, k, reads + 1, saw)
            ELSE IF k = <<>>
                 THEN parseSimpleTextNotation_loop(
                          d, rw.pos, at, line, reads + 1, saw)
                 ELSE parseSimpleTextNotation_loop(
                          d, rw.pos, MapAssign(at, k, line), <<>>,
                          reads + 1, saw \/ line = MULTILINE)

\* parseSimpleTextNotation(ReadStream rs)
parseSimpleTextNotation(d) ==
    parseSimpleTextNotation_loop(d, 0, EmptyMap, <<>>, 0, FALSE)

----------------------------------------------------------------------------
(* The parser specification: stn::parse run on an input, one action per    *)
(* way through the loop body, then rw::parseSimpleTextNotation run on the  *)
(* same input.                                                             *)

\* the lines generated inputs are made of
Lines == {<<>>, <<"a">>, <<"#", "a">>, MULTILINE, END_MULTILINE}

RECURSIVE JoinLines(_)
JoinLines(ls) ==
    IF ls = <<>> THEN <<>> ELSE Head(ls) \o <<NL>> \o JoinLines(Tail(ls))

\* the input without its last byte
DropLast(d) == SubSeq(d, 1, Len(d) - 1)

\* up to MaxLines lines, the last one with or without its newline
LineInputs ==
    LET full == {JoinLines(ls) : ls \in SeqsUpTo(Lines, MaxLines)}
    IN full \cup {DropLast(d) : d \in full \ {<<>>}}

\* "a\n[MULTILINE]\nline1\nline2\n[END_MULTILINE]\n\n"
InputRoundTrip ==
    <<"a", NL>> \o MULTILINE \o <<NL>> \o <<"l", "i", "n", "e", "1">> \o <<NL>>
    \o <<"l", "i", "n", "e", "2">> \o <<NL>> \o END_MULTILINE \o <<NL, NL>>

\* "a\n[MULTILINE]\nfoo\nbar"
InputNoTerminator ==
    <<"a", NL>> \o MULTILINE \o <<NL>> \o <<"f", "o", "o">> \o <<NL>> \o <<"b", "a", "r">>

\* "a\nhello\n\na\nworld\n"
InputDuplicate ==
    <<"a", NL>> \o <<"h", "e", "l", "l", "o">> \o <<NL, NL, "a", NL>> \o <<"w", "o", "r", "l", "d">> \o <<NL>>

\* "a\n [MULTILINE]\na\n[END_MULTILINE]\n": a character before the tag
InputLeadingChar ==
    <<"a", NL, " ">> \o MULTILINE \o <<NL, "a", NL>> \o END_MULTILINE \o <<NL>>

\* "a\n[MULTILINE] \na\n[END_MULTILINE]\n": a character after the tag
InputTrailingChar ==
    <<"a", NL>> \o MULTILINE \o <<" ", NL, "a", NL>> \o END_MULTILINE \o <<NL>>

ExampleInputs ==
    {InputRoundTrip, InputNoTerminator, InputDuplicate, InputLeadingChar,
     InputTrailingChar}

Inputs == LineInputs \cup ExampleInputs

InitParse ==
    /\ data \in Inputs
    /\ pos = 0
    /\ op = NoOp
    /\ attrs = EmptyMap
    /\ key = <<>>
    /\ pc = "loop"
    /\ step = NoStep
    /\ commits = <<>>
    /\ legacy = NoLegacy
    /\ NoWriteStream

\* an iteration of the loop that goes the way named kind
Iteration(kind) ==
    /\ LET b == ParseBody(data, pos, attrs, key, commits)
       IN /\ b.step.kind = kind
          /\ pos' = b.pos
          /\ attrs' = b.attrs
          /\ key' = b.key
          /\ commits' = b.commits
          /\ step' = b.step
    /\ UNCHANGED <<data, op, pc, legacy>>
    /\ UNCHANGED writeVars

\* blank or comment line, no key pending
ParseSkip ==
    /\ pc = "loop"
    /\ HasMore(data, pos)
    /\ Iteration("skip")

\* blank or comment line, key pending
ParseBlankValue ==
    /\ pc = "loop"
    /\ HasMore(data, pos)
    /\ Iteration("blank")

\* the line becomes the pending key
ParseKey ==
    /\ pc = "loop"
    /\ HasMore(data, pos)
    /\ Iteration("key")

\* the line becomes the value of the pending key
ParseValue ==
    /\ pc = "loop"
    /\ HasMore(data, pos)
    /\ Iteration("value")

\* the line is [MULTILINE] and a key is pending
ParseMultiline ==
    /\ pc = "loop"
    /\ HasMore(data, pos)
    /\ Iteration("multiline")

\* the loop ends and attrs is returned, the pending key flushed first
ParseReturn_flush ==
    /\ pc = "loop"
    /\ ~HasMore(data, pos)
    /\ pc' = "done"
    /\ attrs' = IF key # <<>> THEN MapAssign(attrs, key, <<>>) ELSE attrs
    /\ UNCHANGED <<data, pos, op, key, step, commits, legacy>>
    /\ UNCHANGED writeVars

\* while (rs) is false: return attrs
ParseReturn ==
    /\ pc = "loop"
    /\ ~HasMore(data, pos)
    /\ pc' = "done"
    /\ UNCHANGED <<data, pos, op, attrs, key, step, commits, legacy>>
    /\ UNCHANGED writeVars

\* rw::parseSimpleTextNotation called on the buffer stn::parse was given
ParseLegacy ==
    /\ pc = "done"
    /\ pc' = "legacy"
    /\ legacy' = parseSimpleTextNotation(data)
    /\ UNCHANGED <<data, pos, op, attrs, key, step, commits>>
    /\ UNCHANGED writeVars

NextParse ==
    \/ ParseSkip
    \/ ParseBlankValue
    \/ ParseKey
    \/ ParseValue
    \/ ParseMultiline
    \/ ParseReturn
    \/ ParseLegacy

SpecParse == InitParse /\ [][NextParse]_vars

----------------------------------------------------------------------------
(* rw::WriteStream.  A byte is a number in 0..255.                         *)

Max(a, b) == IF a > b THEN a ELSE b

Zeros(n) == [i \in 1..n |-> 0]

\* std::vector<uint8_t>::resize(n): new elements are value-initialized
resize(b, n) ==
    IF n <= Len(b) THEN SubSeq(b, 1, n) ELSE b \o Zeros(n - Len(b))

\* expand(num_bytes)
expand(b, num_bytes) == resize(b, Len(b) + num_bytes)

\* operator[](i) = v; i is within the buffer wherever the code uses it
SetByte(b, i, v) == [j \in 1..Len(b) |-> IF j = i + 1 THEN v ELSE b[j]]

\* pad counting the padding twice: pos = size() + num_bytes after expand
pad_twice(b, p, num_bytes) ==
    LET b1 == expand(b, num_bytes)
    IN [buf |-> b1, pos |-> Len(b1) + num_bytes]

\* pad moving pos by the padding: pos += num_bytes
pad_relative(b, p, num_bytes) ==
    [buf |-> expand(b, num_bytes), pos |-> p + num_bytes]

\* pad(num_bytes)
pad(b, p, num_bytes) ==
    LET b1 == expand(b, num_bytes)
    IN [buf |-> b1, pos |-> Len(b1)]

\* put(b)
put(b, p, byte) ==
    LET b1 == IF p + 1 > Len(b) THEN expand(b, 1) ELSE b
    IN [buf |-> SetByte(b1, p, byte), pos |-> p + 1]

\* the for loop of write: i bytes of src stored so far
RECURSIVE write_loop(_, _, _, _)
write_loop(b, p, src, i) ==
    IF i < Len(src)
    THEN write_loop(SetByte(b, p, src[i + 1]), p + 1, src, i + 1)
    ELSE [buf |-> b, pos |-> p]

\* write resizing to writesize + pos without the test, cutting the buffer
write_cut(b, p, src) == write_loop(resize(b, Len(src) + p), p, src, 0)

\* write(source, writesize)
write(b, p, src) ==
    write_loop(IF Len(src) + p > Len(b) THEN resize(b, Len(src) + p) ELSE b,
               p, src, 0)

\* 1 << k
Shl(x, k) == x * 2 ^ k

\* a & b on bytes
RECURSIVE BitAnd(_, _)
BitAnd(a, b) ==
    IF a = 0 \/ b = 0
    THEN 0
    ELSE (a % 2) * (b % 2) + 2 * BitAnd(a \div 2, b \div 2)

\* a | b on bytes
RECURSIVE BitOr(_, _)
BitOr(a, b) ==
    IF a = 0 THEN b
    ELSE IF b = 0 THEN a
    ELSE Max(a % 2, b % 2) + 2 * BitOr(a \div 2, b \div 2)

\* the low eight bits of ~x, the ones that meet a byte in x & ~y
Not8(x) == 255 - x

\* writebit writing in the same bit order whatever writebit_reversed is
writebit_forward(b, p, bp, reversed, bit) ==
    LET byte_pos == bp \div 8
        byte_bit_pos == bp - byte_pos * 8
        grow == byte_pos >= Len(b)
        b1 == IF grow THEN resize(b, byte_pos + 1) ELSE b
    IN [buf |-> SetByte(b1, byte_pos,
                        BitOr(BitAnd(b1[byte_pos + 1],
                                     Not8(Shl(1, byte_bit_pos))),
                              Shl(bit, byte_bit_pos))),
        pos |-> IF grow THEN Len(b1) ELSE p,
        bit_pos |-> bp + 1]

\* writebit growing the buffer without pos = size()
writebit_keeppos(b, p, bp, reversed, bit) ==
    LET byte_pos == bp \div 8
        byte_bit_pos0 == bp - byte_pos * 8
        grow == byte_pos >= Len(b)
        b1 == IF grow THEN resize(b, byte_pos + 1) ELSE b
        byte_bit_pos == IF reversed THEN 7 - byte_bit_pos0 ELSE byte_bit_pos0
    IN [buf |-> SetByte(b1, byte_pos,
                        BitOr(BitAnd(b1[byte_pos + 1],
                                     Not8(Shl(1, byte_bit_pos))),
                              Shl(bit, byte_bit_pos))),
        pos |-> p,
        bit_pos |-> bp + 1]

\* writebit(bit)
writebit(b, p, bp, reversed, bit) ==
    LET byte_pos == bp \div 8
        byte_bit_pos0 == bp - byte_pos * 8
        grow == byte_pos >= Len(b)
        b1 == IF grow THEN resize(b, byte_pos + 1) ELSE b
        byte_bit_pos == IF reversed THEN 7 - byte_bit_pos0 ELSE byte_bit_pos0
    IN [buf |-> SetByte(b1, byte_pos,
                        BitOr(BitAnd(b1[byte_pos + 1],
                                     Not8(Shl(1, byte_bit_pos))),
                              Shl(bit, byte_bit_pos))),
        pos |-> IF grow THEN Len(b1) ELSE p,
        bit_pos |-> bp + 1]

----------------------------------------------------------------------------
(* The sink specification: a WriteStream holding some bytes, its           *)
(* operations called in any order, at most MaxOps of them.                 *)

\* the bytes a stream starts with, the bytes put and the sources written
InitBytes == {165}
PutBytes == {1, 255}
Sources == {<<>>, <<1>>, <<255, 1>>}
PadCounts == {0, 1, 2}

InitWrite ==
    /\ data = <<>>
    /\ pos = 0
    /\ op = NoOp
    /\ attrs = EmptyMap
    /\ key = <<>>
    /\ pc = "idle"
    /\ step = NoStep
    /\ commits = <<>>
    /\ legacy = NoLegacy
    /\ buf \in SeqsUpTo(InitBytes, MaxBuf)
    /\ wpos \in 0..Len(buf)
    /\ bit_pos \in 0..(8 * Len(buf))
    /\ writebit_reversed \in BOOLEAN
    /\ wop = NoWop
    /\ fresh = {}

\* the record of a call, with the state it was made in
WopOf(name, arg) ==
    [n |-> wop.n + 1, name |-> name, prev |-> wop.name, arg |-> arg,
     buf0 |-> buf, pos0 |-> wpos, bit0 |-> bit_pos]

\* the offsets added by growing from b to b1, and fresh without those in w
Added(b, b1) == {i \in 0..(Len(b1) - 1) : i >= Len(b)}
FreshAfter(b1, w) ==
    {i \in (fresh \cup Added(buf, b1)) \ w : i < Len(b1)}

Pad ==
    /\ wop.n < MaxOps
    /\ \E num_bytes \in PadCounts :
         LET r == pad(buf, wpos, num_bytes)
         IN /\ buf' = r.buf
            /\ wpos' = r.pos
            /\ fresh' = FreshAfter(r.buf, {})
            /\ wop' = WopOf("pad", num_bytes)
    /\ UNCHANGED <<bit_pos, writebit_reversed>>
    /\ UNCHANGED streamVars
    /\ UNCHANGED parseVars

Put ==
    /\ wop.n < MaxOps
    /\ \E b \in PutBytes :
         LET r == put(buf, wpos, b)
         IN /\ buf' = r.buf
            /\ wpos' = r.pos
            /\ fresh' = FreshAfter(r.buf, {wpos})
            /\ wop' = WopOf("put", b)
    /\ UNCHANGED <<bit_pos, writebit_reversed>>
    /\ UNCHANGED streamVars
    /\ UNCHANGED parseVars

Write ==
    /\ wop.n < MaxOps
    /\ \E src \in Sources :
         LET r == write(buf, wpos, src)
         IN /\ buf' = r.buf
            /\ wpos' = r.pos
            /\ fresh' = FreshAfter(r.buf, wpos..(wpos + Len(src) - 1))
            /\ wop' = WopOf("write", src)
    /\ UNCHANGED <<bit_pos, writebit_reversed>>
    /\ UNCHANGED streamVars
    /\ UNCHANGED parseVars

WriteBit ==
    /\ wop.n < MaxOps
    /\ \E bit \in {0, 1} :
         LET r == writebit(buf, wpos, bit_pos, writebit_reversed, bit)
         IN /\ buf' = r.buf
            /\ wpos' = r.pos
            /\ bit_pos' = r.bit_pos
            /\ fresh' = FreshAfter(r.buf, {bit_pos \div 8})
            /\ wop' = WopOf("writebit", bit)
    /\ UNCHANGED writebit_reversed
    /\ UNCHANGED streamVars
    /\ UNCHANGED parseVars

NextWrite == Pad \/ Put \/ Write \/ WriteBit

SpecWrite == InitWrite /\ [][NextWrite]_vars

\* a default-constructed WriteStream: empty vector, pos = 0, bit_pos = 0
InitWriteEmpty ==
    /\ InitWrite
    /\ buf = <<>>
    /\ wpos = 0
    /\ bit_pos = 0

\* the sink specification started from the default-constructed stream
SpecWriteEmpty == InitWriteEmpty /\ [][NextWrite]_vars

----------------------------------------------------------------------------
(* What the claims speak of, stated without the code's algorithms.         *)

\* str lies in d at offset i
OccursAt(d, str, i) ==
    /\ i + Len(str) <= Len(d)
    /\ Range(d, i, i + Len(str)) = str

\* str occurs somewhere in d[p, length)
OccursFrom(d, p, str) == \E i \in p..Len(d) : OccursAt(d, str, i)

\* the offset of the first occurrence of str in d[p, length)
FirstOccurrence(d, p, str) ==
    CHOOSE i \in p..Len(d) :
        /\ OccursAt(d, str, i)
        /\ \A j \in p..(i - 1) : ~OccursAt(d, str, j)

\* the length of the longest run of bytes from offset p that satisfy rule r
RunLength(d, p, r) ==
    CHOOSE n \in 0..(Len(d) - p) :
        /\ \A i \in p..(p + n - 1) : Rule(r, d[i + 1])
        /\ (p + n < Len(d) => ~Rule(r, d[p + n + 1]))

----------------------------------------------------------------------------
(* Claims on the stream specification.                                     *)

\* C1: find of a non-empty needle that occurs in buffer[position..length)
\* returns the absolute offset of the first byte of its first occurrence.
C1_FindFirstOccurrence ==
    (/\ op.name = "find"
     /\ op.pos0 <= Len(data)
     /\ op.needle # <<>>
     /\ OccursFrom(data, op.pos0, op.needle))
    => op.ret = FirstOccurrence(data, op.pos0, op.needle)

\* C2: find of a non-empty needle that does not occur in
\* buffer[position..length) returns length, the size of the stream.
C2_FindAbsentIsLength ==
    (/\ op.name = "find"
     /\ op.pos0 <= Len(data)
     /\ op.needle # <<>>
     /\ ~OccursFrom(data, op.pos0, op.needle))
    => op.ret = Len(data)

\* C6: readWhile at p < length returns the longest run of bytes from p that
\* satisfy the rule; a failing byte after the run is consumed as well
\* (position = p + len(result) + 1) and is not in the result, otherwise
\* position = length; the position is past the failing byte afterwards.
C6_ReadWhileRun ==
    (op.name = "readWhile" /\ op.pos0 < Len(data))
    => LET p == op.pos0
           n == RunLength(data, p, op.rule)
       IN /\ op.ret = Range(data, p, p + n)
          /\ IF p + n < Len(data)
             THEN pos = p + n + 1 /\ pos > p + Len(op.ret)
             ELSE pos = Len(data)

\* a run of at least one byte stopped by a failing byte that was consumed
C6_Witness ==
    /\ op.name = "readWhile"
    /\ op.pos0 < Len(data)
    /\ Len(op.ret) > 0
    /\ op.pos0 + Len(op.ret) < Len(data)
    /\ ~Rule(op.rule, data[op.pos0 + Len(op.ret) + 1])
    /\ pos = op.pos0 + Len(op.ret) + 1

----------------------------------------------------------------------------
(* Claims on the parser specification.                                     *)

\* the offset where the line that starts at offset p ends: the offset of
\* its newline, or the length of the input
LineEnd(d, p) ==
    CHOOSE e \in p..Len(d) :
        /\ \A i \in p..(e - 1) : d[i + 1] # NL
        /\ (e < Len(d) => d[e + 1] = NL)

\* the line that starts at offset p, without its newline
LineAt(d, p) == Range(d, p, LineEnd(d, p))

\* the line is empty or starts with #
IsBlankOrCommentLine(l) == Len(l) = 0 \/ l[1] = "#"

\* the last iteration read the line [MULTILINE] while a key was pending
MultilineRead ==
    /\ step.kind # "none"
    /\ step.key0 # <<>>
    /\ step.line = MULTILINE

\* C3: when a key is pending, the line read is [MULTILINE] and the sequence
\* newline + [END_MULTILINE] + newline occurs at or after the cursor position
\* that follows the line, the value assigned to the key is the bytes from
\* that position up to, not including, the first occurrence of the sequence.
C3_TerminatedMultilineValue ==
    (MultilineRead /\ OccursFrom(data, step.mid, END_SEQUENCE))
    => /\ step.key0 \in DOMAIN attrs
       /\ attrs[step.key0] =
             Range(data, step.mid,
                   FirstOccurrence(data, step.mid, END_SEQUENCE))

\* C4 as claimed: the round-trip input maps a to "line1\nline2\n".
C4_RoundTripKeepsNewline ==
    (pc = "done" /\ data = InputRoundTrip)
    => /\ <<"a">> \in DOMAIN attrs
       /\ attrs[<<"a">>] = <<"l", "i", "n", "e", "1", NL, "l", "i", "n", "e", "2", NL>>

\* C4 as amended: the round-trip input
\* "a\n[MULTILINE]\nline1\nline2\n[END_MULTILINE]\n\n" maps a to
\* "line1\nline2"; the newline that ends the last body line belongs to the
\* terminator sequence and is not part of the value.
C4_RoundTripValue ==
    (pc = "done" /\ data = InputRoundTrip)
    => /\ <<"a">> \in DOMAIN attrs
       /\ attrs[<<"a">>] = <<"l", "i", "n", "e", "1", NL, "l", "i", "n", "e", "2">>

\* the round-trip input has been parsed to the end
C4_Witness ==
    /\ pc = "done"
    /\ data = InputRoundTrip
    /\ pos = Len(data)
    /\ <<"a">> \in DOMAIN attrs

\* C5: when a key is pending, the line read is [MULTILINE] and the sequence
\* newline + [END_MULTILINE] + newline does not occur in the rest of the
\* buffer, the value assigned to the key is the whole remainder of the
\* buffer and the cursor is at the end, so that parsing stops there.
C5_UnterminatedMultilineValue ==
    (MultilineRead /\ ~OccursFrom(data, step.mid, END_SEQUENCE))
    => /\ step.key0 \in DOMAIN attrs
       /\ attrs[step.key0] = Range(data, step.mid, Len(data))
       /\ pos = Len(data)

\* the index of the last assignment made to key k
LastCommit(k) ==
    CHOOSE i \in 1..Len(commits) :
        /\ commits[i].key = k
        /\ \A j \in (i + 1)..Len(commits) : commits[j].key # k

\* C7: the table holds exactly one entry per distinct committed key, and
\* its value is the value of the last committed pair with that key.
C7_LastWriteWins ==
    /\ DOMAIN attrs = {commits[i].key : i \in 1..Len(commits)}
    /\ \A k \in DOMAIN attrs : attrs[k] = commits[LastCommit(k)].val

\* a key committed twice with different values, the parse finished
C7_Witness ==
    /\ pc = "done"
    /\ \E i, j \in 1..Len(commits) :
         /\ i < j
         /\ commits[i].key = commits[j].key
         /\ commits[i].val # commits[j].val
         /\ LastCommit(commits[j].key) = j
         /\ attrs[commits[j].key] = commits[j].val

\* C8: an iteration that reads a blank or comment line while a key is
\* pending stores the line verbatim under that key and clears the pending
\* key.
C8_BlankLineCommitsPendingKey ==
    [][(/\ pc = "loop"
        /\ pos' # pos
        /\ key # <<>>
        /\ IsBlankOrCommentLine(LineAt(data, pos)))
       => (/\ key \in DOMAIN attrs'
           /\ attrs'[key] = LineAt(data, pos)
           /\ key' = <<>>)]_vars

\* a comment line has just become the value of the pending key
C8_Witness ==
    /\ step.kind # "none"
    /\ step.key0 # <<>>
    /\ Len(step.line) > 1
    /\ step.line[1] = "#"
    /\ step.key0 \in DOMAIN attrs
    /\ attrs[step.key0] = step.line
    /\ key = <<>>

\* C9: an iteration that reads a blank or comment line while no key is
\* pending leaves the table and the empty pending key as they were.
C9_BlankLineDiscarded ==
    [][(/\ pc = "loop"
        /\ pos' # pos
        /\ key = <<>>
        /\ IsBlankOrCommentLine(LineAt(data, pos)))
       => (/\ attrs' = attrs
           /\ key' = <<>>)]_vars

\* a comment line was discarded between two pairs
C9_Witness ==
    /\ step.kind # "none"
    /\ step.key0 = <<>>
    /\ Len(step.line) > 0
    /\ step.line[1] = "#"
    /\ key = <<>>
    /\ attrs # EmptyMap
    /\ pos = LineEnd(data, step.from) + 1

\* C10: in the returned table every key is a line of the input that was
\* ended by a newline and followed by more input; a key line that ends the
\* input is not inserted.
C10_TrailingKeyDropped ==
    pc = "done"
    => /\ \A k \in DOMAIN attrs :
            \E i \in 1..Len(commits) :
                LET e == commits[i].keyEnd
                IN /\ commits[i].key = k
                   /\ e < Len(data)
                   /\ e > Len(k)
                   /\ data[e] = NL
                   /\ Range(data, e - 1 - Len(k), e - 1) = k
       /\ (key # <<>> /\ \A i \in 1..Len(commits) : commits[i].key # key)
             => key \notin DOMAIN attrs

\* the input ended right after a key line and the key is not in the table
C10_Witness ==
    /\ pc = "done"
    /\ key # <<>>
    /\ attrs # EmptyMap
    /\ key \notin DOMAIN attrs
    /\ LineAt(data, step.from) = key

\* where the cursor stands after the line that starts at offset p has been
\* read with its newline, and nothing more
AfterLine(d, p) == Min(LineEnd(d, p) + 1, Len(d))

\* C11: the multiline read happens only when a key is pending and the whole
\* line equals [MULTILINE]; any other non-blank, non-comment line read while
\* a key is pending is stored verbatim as its value; a [MULTILINE] line read
\* while no key is pending becomes the pending key, with no special read.
C11_MultilineDetectionExact ==
    [][(pc = "loop" /\ pos' # pos)
       => LET line == LineAt(data, pos)
          IN /\ (step'.kind = "multiline" \/ pos' # AfterLine(data, pos))
                   => (key # <<>> /\ line = MULTILINE)
             /\ (/\ key # <<>>
                 /\ ~IsBlankOrCommentLine(line)
                 /\ line # MULTILINE)
                   => (/\ key \in DOMAIN attrs'
                       /\ attrs'[key] = line
                       /\ pos' = AfterLine(data, pos))
             /\ (key = <<>> /\ line = MULTILINE)
                   => (/\ key' = MULTILINE
                       /\ attrs' = attrs
                       /\ pos' = AfterLine(data, pos))]_vars

\* a line made of [MULTILINE] and one more character was stored as a value
C11_Witness ==
    /\ step.kind = "value"
    /\ step.key0 # <<>>
    /\ Len(step.line) = Len(MULTILINE) + 1
    /\ \/ SubSeq(step.line, 1, Len(MULTILINE)) = MULTILINE
       \/ SubSeq(step.line, 2, Len(step.line)) = MULTILINE
    /\ step.key0 \in DOMAIN attrs
    /\ attrs[step.key0] = step.line
    /\ pos = AfterLine(data, step.from)

----------------------------------------------------------------------------
(* Further claims on the stream specification.                             *)

\* C12: readWhile called with position >= length returns the empty string
\* and leaves the position unchanged, for every predicate.
C12_ReadWhileAtEnd ==
    (op.name = "readWhile" /\ op.pos0 >= Len(data))
    => (op.ret = <<>> /\ pos = op.pos0)

\* readWhile was called at the end of a non-empty buffer
C12_Witness ==
    /\ op.name = "readWhile"
    /\ Len(data) > 0
    /\ op.pos0 = Len(data)
    /\ op.ret = <<>>
    /\ pos = Len(data)

Available(d, p, count) == IF p >= Len(d) THEN 0 ELSE Min(count, Len(d) - p)

\* C14: read(destination, count) copies min(count, length - position) bytes
\* (0 when position >= length) from the buffer at position, in order,
\* advances the position by that number and returns it.
C14_ReadCopiesAvailable ==
    op.name = "read"
    => LET n == Available(data, op.pos0, op.readsize)
       IN /\ op.ret = n
          /\ Len(op.bytes) = n
          /\ \A i \in 1..n : op.bytes[i] = data[op.pos0 + i]
          /\ pos = op.pos0 + n

\* a read that asked for more bytes than were left
C14_Witness ==
    /\ op.name = "read"
    /\ op.pos0 < Len(data)
    /\ op.readsize > Len(data) - op.pos0
    /\ op.ret = Len(data) - op.pos0
    /\ op.ret > 0
    /\ pos = Len(data)

\* C15: readUntil(endPosition) with endPosition < position returns the
\* empty string and leaves the position unchanged.
C15_ReadUntilBackwards ==
    (op.name = "readUntil" /\ op.end < op.pos0)
    => (op.ret = <<>> /\ pos = op.pos0)

\* readUntil was asked for an end before the cursor, with bytes left to read
C15_Witness ==
    /\ op.name = "readUntil"
    /\ op.end > 0
    /\ op.end < op.pos0
    /\ op.pos0 < Len(data)
    /\ op.ret = <<>>
    /\ pos = op.pos0

----------------------------------------------------------------------------
(* Claims on the sink specification.                                       *)

\* bit k of byte v
BitOf(v, k) == (v \div (2 ^ k)) % 2

\* the byte at offset j before the last call, 0 beyond the buffer it had
ByteBefore(j) == IF j < Len(wop.buf0) THEN wop.buf0[j + 1] ELSE 0

\* C17: after any sequence of pad, put, write and writebit calls the buffer
\* length is at least max(pos, ceil(bit_pos / 8)), and every byte added by an
\* extension and not written since is zero.
C17_SinkInvariant ==
    /\ Len(buf) >= Max(wpos, (bit_pos + 7) \div 8)
    /\ \A i \in fresh : i < Len(buf) /\ buf[i + 1] = 0

\* a call grew a buffer that still holds unwritten padding
C17_Witness ==
    /\ wop.n >= 2
    /\ wop.name \in {"put", "write", "writebit"}
    /\ Len(buf) > Len(wop.buf0)
    /\ fresh # {}
    /\ \E i \in fresh : buf[i + 1] = 0

\* C18: pad(n) appends n zero bytes and sets pos to the new length, old
\* length + n, whatever pos was; a put or a non-empty write that follows
\* stores its first byte at offset old length + n, right after the padding,
\* and leaves the bytes before it as they were.
C18_PadThenAppend ==
    [][(wop'.n = wop.n + 1)
       => /\ (wop'.name = "pad")
               => (/\ buf' = buf \o Zeros(wop'.arg)
                   /\ wpos' = Len(buf) + wop'.arg)
          /\ (wop.name = "pad" /\ wop'.name = "put")
               => (/\ Len(buf) = Len(wop.buf0) + wop.arg
                   /\ buf' = buf \o <<wop'.arg>>)
          /\ (wop.name = "pad" /\ wop'.name = "write" /\ wop'.arg # <<>>)
               => (/\ Len(buf) = Len(wop.buf0) + wop.arg
                   /\ buf' = buf \o wop'.arg)]_vars

\* a put right after a pad of a stream whose pos was not at its end
C18_Witness ==
    /\ wop.prev = "pad"
    /\ wop.name = "put"
    /\ Len(wop.buf0) >= 2
    /\ wop.buf0[Len(wop.buf0)] = 0
    /\ wop.buf0[1] # 0
    /\ buf = wop.buf0 \o <<wop.arg>>
    /\ wpos = Len(buf)

\* C19: after write(source, count) the buffer length is max(old length,
\* old pos + count), the bytes at [old pos, old pos + count) are the source
\* bytes in order, pos is old pos + count and every other byte is as before.
C19_WriteEffect ==
    wop.name = "write"
    => LET count == Len(wop.arg)
       IN /\ Len(buf) = Max(Len(wop.buf0), wop.pos0 + count)
          /\ \A i \in 0..(count - 1) : buf[wop.pos0 + i + 1] = wop.arg[i + 1]
          /\ wpos = wop.pos0 + count
          /\ \A j \in 0..(Len(buf) - 1) :
               (j < wop.pos0 \/ j >= wop.pos0 + count)
               => buf[j + 1] = ByteBefore(j)

\* a write inside the buffer that left a byte after it untouched
C19_Witness ==
    /\ wop.name = "write"
    /\ Len(wop.arg) > 0
    /\ wop.pos0 + Len(wop.arg) < Len(wop.buf0)
    /\ Len(buf) = Len(wop.buf0)
    /\ buf[wop.pos0 + 1] = wop.arg[1]
    /\ buf[Len(buf)] = wop.buf0[Len(buf)]
    /\ wpos = wop.pos0 + Len(wop.arg)

\* C20: writebit(bit) gives the value bit to bit (bit_pos mod 8) of byte
\* (bit_pos div 8), or to bit 7 - (bit_pos mod 8) when writebit_reversed is
\* set; the other bits of that byte and the other bytes keep their value;
\* bit_pos grows by 1; pos changes only when the buffer had to be extended,
\* and then becomes the new buffer length.
C20_WriteBitEffect ==
    wop.name = "writebit"
    => LET byte == wop.bit0 \div 8
           k == IF writebit_reversed
                THEN 7 - (wop.bit0 % 8)
                ELSE wop.bit0 % 8
           grew == byte >= Len(wop.buf0)
       IN /\ Len(buf) = IF grew THEN byte + 1 ELSE Len(wop.buf0)
          /\ BitOf(buf[byte + 1], k) = wop.arg
          /\ \A m \in 0..7 : m # k
                => BitOf(buf[byte + 1], m) = BitOf(ByteBefore(byte), m)
          /\ \A j \in 0..(Len(buf) - 1) : j # byte
                => buf[j + 1] = ByteBefore(j)
          /\ bit_pos = wop.bit0 + 1
          /\ wpos = IF grew THEN Len(buf) ELSE wop.pos0

\* a reversed writebit cleared a bit of a byte that has other bits set
C20_Witness ==
    /\ wop.name = "writebit"
    /\ writebit_reversed
    /\ wop.arg = 0
    /\ wop.bit0 % 8 # 7 - (wop.bit0 % 8)
    /\ wop.bit0 \div 8 < Len(wop.buf0)
    /\ buf[(wop.bit0 \div 8) + 1] # 0
    /\ buf[(wop.bit0 \div 8) + 1] < wop.buf0[(wop.bit0 \div 8) + 1]
    /\ wpos = wop.pos0

----------------------------------------------------------------------------
(* Further claims on the parser specification.                             *)

\* C21: on an empty buffer stn::parse and rw::parseSimpleTextNotation return
\* an empty table and read nothing: no loop iteration runs and the cursor
\* stays at 0.
C21_EmptyBufferEmptyTable ==
    Len(data) = 0
    => /\ attrs = EmptyMap
       /\ key = <<>>
       /\ pos = 0
       /\ step = NoStep
       /\ pc = "legacy"
            => (/\ legacy.attrs = EmptyMap
                /\ legacy.pos = 0
                /\ legacy.reads = 0)

\* both parsers have returned for the empty buffer
C21_Witness ==
    /\ Len(data) = 0
    /\ pc = "legacy"
    /\ attrs = EmptyMap
    /\ legacy.attrs = EmptyMap
    /\ legacy.reads = 0

\* C22: stn::parse terminates: an iteration of the loop is only entered with
\* pos < size and leaves the cursor at least one byte further, no step moves
\* the cursor back, and with pos >= size the only step is the return, so a
\* run makes at most size iterations and then returns.
C22_CursorAdvances ==
    [][/\ pos' >= pos
       /\ (pc = "loop" /\ pc' = "loop")
            => (pos < Len(data) /\ pos' >= pos + 1 /\ step'.from = pos)
       /\ (pc = "loop" /\ pos >= Len(data))
            => (pc' = "done" /\ pos' = pos)]_vars

\* the return of a run that made as many iterations as the buffer has bytes
C22_Witness ==
    /\ pc = "done"
    /\ Len(data) >= 3
    /\ pos >= Len(data)
    /\ step.kind # "none"
    /\ step.from = Len(data) - 1

\* C23: a terminated multiline read consumes the terminator with the block:
\* it leaves no key pending and the cursor past the first occurrence of
\* newline + [END_MULTILINE] + newline, so that the tag is never read as a
\* line of its own; and the table of the round-trip input
\* "a\n[MULTILINE]\nline1\nline2\n[END_MULTILINE]\n\n" has a as its only key.
C23_TerminatorConsumed ==
    /\ (MultilineRead /\ OccursFrom(data, step.mid, END_SEQUENCE))
         => /\ key = <<>>
            /\ pos >= FirstOccurrence(data, step.mid, END_SEQUENCE)
                        + Len(END_SEQUENCE)
    /\ (pc = "done" /\ data = InputRoundTrip)
         => DOMAIN attrs = {<<"a">>}

\* C24: in the multiline read the offset find hands to readUntil lies between
\* the cursor and the length of the buffer, so readUntil takes its forward
\* branch: the cursor ends at that offset and the value stored is exactly
\* the bytes of the buffer between the two, with no '\0' filling.
C24_MultilineOffsetInRange ==
    MultilineRead
    => LET offset == find(data, step.mid, END_SEQUENCE)
       IN /\ step.mid <= offset
          /\ offset <= Len(data)
          /\ pos = offset
          /\ step.val = Range(data, step.mid, offset)
          /\ \A i \in 1..Len(step.val) : step.val[i] # NUL
          /\ attrs[step.key0] = step.val

\* a multiline read that stored a non-empty value and stopped before the end
C24_Witness ==
    /\ MultilineRead
    /\ step.kind = "multiline"
    /\ Len(step.val) > 0
    /\ pos < Len(data)
    /\ pos = step.mid + Len(step.val)

\* C26: on an input where no line equal to [MULTILINE] is read while a key
\* is pending, stn::parse and rw::parseSimpleTextNotation return the same
\* table (and stop at the same cursor with the same pending key); the two
\* tables differ only when the multiline read was triggered.
C26_ParsersAgree ==
    pc = "legacy"
    => /\ ~legacy.saw
            => (/\ legacy.attrs = attrs
                /\ legacy.pos = pos
                /\ legacy.key = key)
       /\ legacy.attrs # attrs => legacy.saw

\* both parsers returned the same two-entry table, with [MULTILINE] as a key
C26_Witness ==
    /\ pc = "legacy"
    /\ ~legacy.saw
    /\ legacy.attrs = attrs
    /\ MULTILINE \in DOMAIN attrs
    /\ Cardinality(DOMAIN attrs) >= 2
    /\ legacy.reads >= 4

----------------------------------------------------------------------------
(* Claims on the typed-read specification.                                 *)

\* C27: read<T>() of the first ReadStream definition, called with
\* pos <= size, advances pos by exactly the number of bytes it copied,
\* min(sizeof(T), size - pos): pos stays within the buffer, the value holds
\* the bytes from the old pos on, and a second call starts where the bytes
\* copied by the first one end.
C27_TypedReadAdvancesByCopied ==
    op.name = "read<T>"
    => /\ op.count = Min(op.sizeofT, Len(data) - op.pos0)
       /\ pos = op.pos0 + op.count
       /\ pos <= Len(data)
       /\ SubSeq(op.ret, 1, op.count)
            = Range(data, op.pos0, op.pos0 + op.count)
       /\ op.pos0 = op.prev.pos0 + op.prev.count

----------------------------------------------------------------------------
(* Claims on the sink started empty.                                       *)

\* C25: a WriteStream that starts empty and is changed only by pad, put,
\* write and writebit always has pos = size; so put and write append their
\* bytes after the bytes already there and pad leaves those bytes as they
\* were.
C25_PosIsSize ==
    /\ wpos = Len(buf)
    /\ wop.name = "put" => buf = Append(wop.buf0, wop.arg)
    /\ wop.name = "write" => buf = wop.buf0 \o wop.arg
    /\ wop.name = "pad"
         => (/\ Len(buf) = Len(wop.buf0) + wop.arg
             /\ SubSeq(buf, 1, Len(wop.buf0)) = wop.buf0)

\* a put after a writebit that grew the empty stream, three calls in all
C25_Witness ==
    /\ wop.n = 3
    /\ wop.name = "put"
    /\ wop.prev = "writebit"
    /\ bit_pos >= 1
    /\ Len(wop.buf0) >= 1
    /\ wpos = Len(wop.buf0) + 1

====
